---- MODULE Spec2Model ----
(***************************************************************************)
(* Task Planning & Logistics search engine (module2_search/task_planner.py)*)
(*                                                                         *)
(* ColonyGraph, the two pathfinders (astar_path, idastar_path) and the     *)
(* assignment searches of TaskPlanner, as state machines.                  *)
(*                                                                         *)
(* Numbers.  The program computes with Python floats.  Every cost is kept  *)
(* here as an integer number of 1/Scale units: an edge cost of 1.5 is      *)
(* 1500, math.hypot is the integer square root of the scaled square, and   *)
(* int(x) is x \div Scale.  float('inf') is Infinity.                      *)
(***************************************************************************)
EXTENDS Integers, Sequences, FiniteSets, TLC

VARIABLES graph,      \* TaskPlanner.graph: the ColonyGraph
          query,      \* the (start, goal) arguments of the pathfinder calls
          astar,      \* astar_path: locals of the running call and its result
          ida,        \* idastar_path: locals of the running call and its result
          colony,     \* TaskPlanner.colony_state.agents: the list of agents
          iter_first, \* the node that iterating the set graph.nodes yields first
          plan,       \* plan_with_astar: locals of the running call and its result
          beam,       \* plan_with_beam_search: locals of the running call and its result
          calls       \* the add_node / add_edge calls made on the graph so far

vars == <<graph, query, astar, ida, colony, iter_first, plan, beam, calls>>

Scale == 10 ^ 3

Infinity == 1000000000

\* None, for an optional path (a found path is never empty)
NoPath == <<>>

\* None, for an optional node id
None == "None"

\* None, for an optional (x, y) position
NoPos == <<>>

-----------------------------------------------------------------------------
(* Arithmetic helpers *)

\* F applied to the value of e, with e evaluated once
ByValue(F(_), e) == CHOOSE r \in {F(v) : v \in {e}} : TRUE

\* the largest r of lo..hi with r * r <= n, by bisection
ISqrtBetween[n \in Nat, lo \in Nat, hi \in Nat] ==
    IF lo >= hi THEN lo
    ELSE LET mid == (lo + hi + 1) \div 2
         IN IF mid * mid <= n THEN ISqrtBetween[n, mid, hi]
                              ELSE ISqrtBetween[n, lo, mid - 1]

\* math.hypot(dx, dy), in 1/Scale units, rounded down
Hypot(dx, dy) == ISqrtBetween[(dx * dx + dy * dy) * Scale * Scale, 0, 46340]

InSeq(x, s) == \E i \in 1..Len(s) : s[i] = x

SetMin(S) == CHOOSE x \in S : \A y \in S : x <= y

SeqRange(s) == {s[i] : i \in 1..Len(s)}

\* Python's ordering of the node-id strings used in the model
NodeOrder == <<"bridge", "engineering", "ghost", "life_support", "n1", "n2",
               "n3", "n4", "section_alpha", "section_beta", "storage">>

NodeRank(n) == CHOOSE i \in 1..Len(NodeOrder) : NodeOrder[i] = n

\* Python's list comparison p < q on lists of node ids
RECURSIVE PathLess(_, _)
PathLess(p, q) ==
    IF Len(q) = 0 THEN FALSE
    ELSE IF Len(p) = 0 THEN TRUE
    ELSE IF NodeRank(Head(p)) # NodeRank(Head(q))
         THEN NodeRank(Head(p)) < NodeRank(Head(q))
         ELSE PathLess(Tail(p), Tail(q))

-----------------------------------------------------------------------------
(* ColonyGraph *)

\* ColonyGraph.__init__: nodes is a set; edges and node_positions are dicts,
\* kept as sequences of pairs in insertion order.
EmptyGraph == [nodes |-> {}, edges |-> <<>>, node_positions |-> <<>>]

\* dict lookup / update on a sequence of <<key, value>> pairs
HasKey(d, k) == \E i \in 1..Len(d) : d[i][1] = k

Lookup(d, k) == d[CHOOSE i \in 1..Len(d) : d[i][1] = k][2]

DictSet(d, k, v) ==
    IF HasKey(d, k)
    THEN [i \in 1..Len(d) |-> IF d[i][1] = k THEN <<k, v>> ELSE d[i]]
    ELSE Append(d, <<k, v>>)

add_node(G, node_id, position) ==
    [G EXCEPT !.nodes = @ \cup {node_id},
              !.node_positions = IF position # NoPos
                                 THEN DictSet(@, node_id, position) ELSE @]

\* self.edges[a][b] = cost on the defaultdict of dicts
SetEdge(edges, a, b, cost) ==
    DictSet(edges, a, DictSet(IF HasKey(edges, a) THEN Lookup(edges, a) ELSE <<>>,
                              b, cost))

\* add_edge that never writes the reverse entry
add_edgeOneWay(G, from_node, to_node, cost, bidirectional) ==
    LET G1 == IF from_node \notin G.nodes THEN add_node(G, from_node, NoPos) ELSE G
        G2 == IF to_node \notin G1.nodes THEN add_node(G1, to_node, NoPos) ELSE G1
    IN [G2 EXCEPT !.edges = SetEdge(G2.edges, from_node, to_node, cost)]

add_edge(G, from_node, to_node, cost, bidirectional) ==
    LET G1 == IF from_node \notin G.nodes THEN add_node(G, from_node, NoPos) ELSE G
        G2 == IF to_node \notin G1.nodes THEN add_node(G1, to_node, NoPos) ELSE G1
        e1 == SetEdge(G2.edges, from_node, to_node, cost)
        e2 == IF bidirectional THEN SetEdge(e1, to_node, from_node, cost) ELSE e1
    IN [G2 EXCEPT !.edges = e2]

\* list of <<neighbor, cost>> in insertion order
get_neighbors(G, node) ==
    IF HasKey(G.edges, node) THEN Lookup(G.edges, node) ELSE <<>>

heuristic(G, node, goal) ==
    IF HasKey(G.node_positions, node) /\ HasKey(G.node_positions, goal)
    THEN LET p1 == Lookup(G.node_positions, node)
             p2 == Lookup(G.node_positions, goal)
         IN Hypot(p2[1] - p1[1], p2[2] - p1[2])
    ELSE 0

create_default_colony_graph ==
    LET g1  == add_node(EmptyGraph, "section_alpha", <<0, 0>>)
        g2  == add_node(g1, "section_beta", <<20, 0>>)
        g3  == add_node(g2, "bridge", <<10, 0>>)
        g4  == add_node(g3, "storage", <<10, 10>>)
        g5  == add_node(g4, "life_support", <<0, 10>>)
        g6  == add_node(g5, "engineering", <<20, 10>>)
        g7  == add_edge(g6, "section_alpha", "bridge", 1000, TRUE)
        g8  == add_edge(g7, "bridge", "section_beta", 1000, TRUE)
        g9  == add_edge(g8, "bridge", "storage", 1500, TRUE)
        g10 == add_edge(g9, "section_alpha", "life_support", 1000, TRUE)
        g11 == add_edge(g10, "section_beta", "engineering", 1000, TRUE)
        g12 == add_edge(g11, "storage", "life_support", 1500, TRUE)
    IN add_edge(g12, "storage", "engineering", 1500, TRUE)

-----------------------------------------------------------------------------
(* PathResult *)

PathResult(path, cost, found) == [path |-> path, cost |-> cost, found |-> found]

NotFound == PathResult(<<>>, 0, FALSE)

-----------------------------------------------------------------------------
(* TaskPlanner.astar_path *)

\* heap entries are the tuples (f_score, g_score, node, path)
Entry(f, g, node, path) == [f |-> f, g |-> g, node |-> node, path |-> path]

\* Python's tuple comparison a < b on heap entries
EntryLess(a, b) ==
    IF a.f # b.f THEN a.f < b.f
    ELSE IF a.g # b.g THEN a.g < b.g
    ELSE IF a.node # b.node THEN NodeRank(a.node) < NodeRank(b.node)
    ELSE PathLess(a.path, b.path)

\* heapq.heappop: the least entry of the heap
HeapMin(open) == CHOOSE e \in open : \A o \in open : o = e \/ EntryLess(e, o)

AStarIdle == [status |-> "idle", open |-> {}, closed |-> {},
              g_scores |-> <<>>, result |-> NotFound]

\* astar_path whose start == goal shortcut returns an empty path
AStarStartEmptyTrivialPath(G, start, goal) ==
    IF start \notin G.nodes \/ goal \notin G.nodes
    THEN [AStarIdle EXCEPT !.status = "done"]
    ELSE IF start = goal
    THEN [AStarIdle EXCEPT !.status = "done",
                           !.result = PathResult(<<>>, 0, TRUE)]
    ELSE [status |-> "run", open |-> {Entry(0, 0, start, <<start>>)},
          closed |-> {}, g_scores |-> <<<<start, 0>>>>, result |-> NotFound]

\* lines 249-259: the early returns, or the initial open set
AStarStart(G, start, goal) ==
    IF start \notin G.nodes \/ goal \notin G.nodes
    THEN [AStarIdle EXCEPT !.status = "done"]
    ELSE IF start = goal
    THEN [AStarIdle EXCEPT !.status = "done",
                           !.result = PathResult(<<start>>, 0, TRUE)]
    ELSE [status |-> "run", open |-> {Entry(0, 0, start, <<start>>)},
          closed |-> {}, g_scores |-> <<<<start, 0>>>>, result |-> NotFound]

\* the neighbor loop pushing the popped g_score instead of tentative_g
RECURSIVE AStarRelaxStaleG(_, _, _, _, _, _)
AStarRelaxStaleG(G, goal, s, cur, nbrs, i) ==
    IF i > Len(nbrs) THEN s
    ELSE LET neighbor == nbrs[i][1]
             tentative_g == cur.g + nbrs[i][2]
         IN IF neighbor \in s.closed
            THEN AStarRelaxStaleG(G, goal, s, cur, nbrs, i + 1)
            ELSE IF ~HasKey(s.g_scores, neighbor)
                    \/ tentative_g < Lookup(s.g_scores, neighbor)
            THEN AStarRelaxStaleG(G, goal,
                     [s EXCEPT !.g_scores = DictSet(@, neighbor, tentative_g),
                               !.open = @ \cup {Entry(tentative_g + heuristic(G, neighbor, goal),
                                                      cur.g, neighbor,
                                                      Append(cur.path, neighbor))}],
                     cur, nbrs, i + 1)
            ELSE AStarRelaxStaleG(G, goal, s, cur, nbrs, i + 1)

\* the neighbor loop pushing a neighbor again on an equal g_score
RECURSIVE AStarRelaxOnTie(_, _, _, _, _, _)
AStarRelaxOnTie(G, goal, s, cur, nbrs, i) ==
    IF i > Len(nbrs) THEN s
    ELSE LET neighbor == nbrs[i][1]
             tentative_g == cur.g + nbrs[i][2]
         IN IF neighbor \in s.closed
            THEN AStarRelaxOnTie(G, goal, s, cur, nbrs, i + 1)
            ELSE IF ~HasKey(s.g_scores, neighbor)
                    \/ tentative_g <= Lookup(s.g_scores, neighbor)
            THEN AStarRelaxOnTie(G, goal,
                     [s EXCEPT !.g_scores = DictSet(@, neighbor, tentative_g),
                               !.open = @ \cup {Entry(tentative_g + heuristic(G, neighbor, goal),
                                                      tentative_g, neighbor,
                                                      Append(cur.path, neighbor))}],
                     cur, nbrs, i + 1)
            ELSE AStarRelaxOnTie(G, goal, s, cur, nbrs, i + 1)

\* lines 273-284: the loop over the neighbors of the popped node, from the
\* i-th neighbor on
RECURSIVE AStarRelax(_, _, _, _, _, _)
AStarRelax(G, goal, s, cur, nbrs, i) ==
    IF i > Len(nbrs) THEN s
    ELSE LET neighbor == nbrs[i][1]
             tentative_g == cur.g + nbrs[i][2]
         IN IF neighbor \in s.closed
            THEN AStarRelax(G, goal, s, cur, nbrs, i + 1)
            ELSE IF ~HasKey(s.g_scores, neighbor)
                    \/ tentative_g < Lookup(s.g_scores, neighbor)
            THEN AStarRelax(G, goal,
                     [s EXCEPT !.g_scores = DictSet(@, neighbor, tentative_g),
                               !.open = @ \cup {Entry(tentative_g + heuristic(G, neighbor, goal),
                                                      tentative_g, neighbor,
                                                      Append(cur.path, neighbor))}],
                     cur, nbrs, i + 1)
            ELSE AStarRelax(G, goal, s, cur, nbrs, i + 1)

\* lines 261-286: one iteration of the while loop, and the return after the
\* loop when the open set has run empty
AStarIterate(G, goal, s) ==
    IF s.open = {} THEN [s EXCEPT !.status = "done", !.result = NotFound]
    ELSE LET cur == HeapMin(s.open)
             s1 == [s EXCEPT !.open = @ \ {cur}]
         IN IF cur.node \in s.closed THEN s1
            ELSE LET s2 == [s1 EXCEPT !.closed = @ \cup {cur.node}]
                 IN IF cur.node = goal
                    THEN [s2 EXCEPT !.status = "done",
                                    !.result = PathResult(cur.path, cur.g, TRUE)]
                    ELSE AStarRelax(G, goal, s2, cur, get_neighbors(G, cur.node), 1)

RECURSIVE AStarRun(_, _, _)
AStarRun(G, goal, s) ==
    IF s.status = "done" THEN s ELSE AStarRun(G, goal, AStarIterate(G, goal, s))

\* astar_path(start, goal) as a function of the graph
astar_path(G, start, goal) == AStarRun(G, goal, AStarStart(G, start, goal)).result

-----------------------------------------------------------------------------
(* TaskPlanner.idastar_path *)

\* lines 307-334: search(path, g_score, bound); returns the pair
\* (result, bound) with result = NoPath for None
RECURSIVE search(_, _, _, _, _), searchLoop(_, _, _, _, _, _, _)
search(G, goal, path, g_score, bound) ==
    LET node == path[Len(path)]
        f_score == g_score + heuristic(G, node, goal)
    IN IF f_score > bound THEN [result |-> NoPath, bound |-> f_score]
       ELSE IF node = goal THEN [result |-> path, bound |-> g_score]
       ELSE searchLoop(G, goal, path, g_score, bound, 1, Infinity)

searchLoop(G, goal, path, g_score, bound, i, min_exceeded) ==
    LET nbrs == get_neighbors(G, path[Len(path)])
        Returned(r) ==
            IF r.result # NoPath THEN r
            ELSE searchLoop(G, goal, path, g_score, bound, i + 1,
                            IF r.bound < min_exceeded THEN r.bound
                                                      ELSE min_exceeded)
    IN IF i > Len(nbrs) THEN [result |-> NoPath, bound |-> min_exceeded]
       ELSE IF InSeq(nbrs[i][1], path)
       THEN searchLoop(G, goal, path, g_score, bound, i + 1, min_exceeded)
       ELSE ByValue(Returned, search(G, goal, Append(path, nbrs[i][1]),
                                     g_score + nbrs[i][2], bound))

\* lines 307-334: the path arguments of the calls of search made while
\* search(path, g_score, bound) runs, its own included
RECURSIVE searchCalls(_, _, _, _, _), searchCallsLoop(_, _, _, _, _, _)
searchCalls(G, goal, path, g_score, bound) ==
    LET node == path[Len(path)]
        f_score == g_score + heuristic(G, node, goal)
    IN IF f_score > bound \/ node = goal THEN {path}
       ELSE {path} \cup searchCallsLoop(G, goal, path, g_score, bound, 1)

searchCallsLoop(G, goal, path, g_score, bound, i) ==
    LET nbrs == get_neighbors(G, path[Len(path)])
        Rest(found) == IF found THEN {}
                       ELSE searchCallsLoop(G, goal, path, g_score, bound, i + 1)
    IN IF i > Len(nbrs) THEN {}
       ELSE IF InSeq(nbrs[i][1], path)
       THEN searchCallsLoop(G, goal, path, g_score, bound, i + 1)
       ELSE searchCalls(G, goal, Append(path, nbrs[i][1]),
                        g_score + nbrs[i][2], bound)
            \cup Rest(search(G, goal, Append(path, nbrs[i][1]),
                             g_score + nbrs[i][2], bound).result # NoPath)

IdaIdle == [status |-> "idle", bound |-> 0, iterations |-> 0, result |-> NotFound]

\* lines 301-305 and 337: the early returns, or the first bound
IdaStart(G, start, goal) ==
    IF start \notin G.nodes \/ goal \notin G.nodes
    THEN [IdaIdle EXCEPT !.status = "done"]
    ELSE IF start = goal
    THEN [IdaIdle EXCEPT !.status = "done",
                         !.result = PathResult(<<start>>, 0, TRUE)]
    ELSE [IdaIdle EXCEPT !.status = "run", !.bound = heuristic(G, start, goal)]

\* the deepening loop giving up after the first bound that fails
IdaIterateSinglePass(G, start, goal, s) ==
    LET Returned(r) ==
            IF r.result # NoPath
            THEN [s EXCEPT !.status = "done", !.iterations = @ + 1,
                           !.result = PathResult(r.result, r.bound, TRUE)]
            ELSE [s EXCEPT !.status = "done", !.iterations = @ + 1,
                           !.result = NotFound]
    IN Returned(search(G, goal, <<start>>, 0, s.bound))

\* the deepening loop repeating the search with the bound it had
IdaIterateKeepsBound(G, start, goal, s) ==
    LET Returned(r) ==
            IF r.result # NoPath
            THEN [s EXCEPT !.status = "done", !.iterations = @ + 1,
                           !.result = PathResult(r.result, r.bound, TRUE)]
            ELSE IF r.bound = Infinity
            THEN [s EXCEPT !.status = "done", !.iterations = @ + 1,
                           !.result = NotFound]
            ELSE [s EXCEPT !.iterations = @ + 1]
    IN Returned(search(G, goal, <<start>>, 0, s.bound))

\* lines 338-344: one iteration of the deepening loop
IdaIterate(G, start, goal, s) ==
    LET Returned(r) ==
            IF r.result # NoPath
            THEN [s EXCEPT !.status = "done", !.iterations = @ + 1,
                           !.result = PathResult(r.result, r.bound, TRUE)]
            ELSE IF r.bound = Infinity
            THEN [s EXCEPT !.status = "done", !.iterations = @ + 1,
                           !.result = NotFound]
            ELSE [s EXCEPT !.bound = r.bound, !.iterations = @ + 1]
    IN Returned(search(G, goal, <<start>>, 0, s.bound))

RECURSIVE IdaRun(_, _, _, _)
IdaRun(G, start, goal, s) ==
    IF s.status = "done" THEN s
    ELSE IdaRun(G, start, goal, IdaIterate(G, start, goal, s))

idastar_path(G, start, goal) == IdaRun(G, start, goal, IdaStart(G, start, goal)).result

-----------------------------------------------------------------------------
(* Colony state and tasks, as the planner reads them *)

MAX_PRIORITY_FOR_PENALTY == 10

DEFAULT_FALLBACK_NODE == "section_alpha"

DEFAULT_RESOURCE_COST == [oxygen |-> -1 * Scale, calories |-> -2 * Scale]

\* agent.get("id") is None
NoId == -1

\* an agent's "location": (x, y) coordinates, a string, or None
XY(x, y) == [kind |-> "xy", x |-> x, y |-> y, name |-> ""]

Named(name) == [kind |-> "str", x |-> 0, y |-> 0, name |-> name]

NoLocation == [kind |-> "none", x |-> 0, y |-> 0, name |-> ""]

Agent(id, location) == [id |-> id, location |-> location]

Task(task_id, location, priority, estimated_duration) ==
    [task_id |-> task_id, location |-> location, priority |-> priority,
     estimated_duration |-> estimated_duration]

\* ColonyState.get_agent_by_id: index of the first agent whose
\* agent.get("id") equals agent_id (for None, the first agent without id),
\* 0 if there is none
AgentIndexById(agents, agent_id) ==
    IF \E i \in 1..Len(agents) : agents[i].id = agent_id
    THEN CHOOSE i \in 1..Len(agents) :
            /\ agents[i].id = agent_id
            /\ \A j \in 1..(i - 1) : agents[j].id # agent_id
    ELSE 0

\* min(self.node_positions.items(), key=...): a scan that keeps the first
\* item at the least distance
RECURSIVE ClosestFrom(_, _, _, _, _)
ClosestFrom(np, position, i, best, best_dist) ==
    IF i > Len(np) THEN best
    ELSE LET d == Hypot(position[1] - np[i][2][1], position[2] - np[i][2][2])
         IN IF d < best_dist THEN ClosestFrom(np, position, i + 1, np[i][1], d)
                             ELSE ClosestFrom(np, position, i + 1, best, best_dist)

\* ColonyGraph.find_closest_node: None without positions
find_closest_node(G, position) ==
    IF G.node_positions = <<>> THEN None
    ELSE ClosestFrom(G.node_positions, position, 1, None, Infinity)

get_agent_location_node(G, agents, agent_id) ==
    LET i == AgentIndexById(agents, agent_id)
    IN IF i = 0 THEN None
       ELSE LET location == agents[i].location
            IN IF location.kind = "none" THEN None
               ELSE IF location.kind = "str"
               THEN IF location.name \in G.nodes THEN location.name ELSE None
               ELSE find_closest_node(G, <<location.x, location.y>>)

get_task_location_node(G, task) == find_closest_node(G, task.location)

\* the travel between two nodes charging an infinite cost when no path is
\* found
TravelBetweenOrInfinity(G, start_node, goal_node, use_idastar) ==
    IF start_node = goal_node
    THEN [cost |-> 0, path |-> <<start_node>>]
    ELSE LET Travel(result) ==
                 [cost |-> IF result.found THEN result.cost ELSE Infinity,
                  path |-> IF result.found THEN result.path ELSE <<>>]
         IN IF use_idastar
            THEN Travel(idastar_path(G, start_node, goal_node))
            ELSE Travel(astar_path(G, start_node, goal_node))

\* lines 414-422: the travel between two located nodes, by idastar_path
\* when use_idastar is set and by astar_path otherwise
TravelBetween(G, start_node, goal_node, use_idastar) ==
    IF start_node = goal_node
    THEN [cost |-> 0, path |-> <<start_node>>]
    ELSE LET Travel(result) ==
                 [cost |-> result.cost,
                  path |-> IF result.found THEN result.path ELSE <<>>]
         IN IF use_idastar
            THEN Travel(idastar_path(G, start_node, goal_node))
            ELSE Travel(astar_path(G, start_node, goal_node))

\* the fallback charging nothing whatever the agent's location
TravelFallbackFree(agents, from_agent_id, to_task) == [cost |-> 0, path |-> <<>>]

\* lines 401-411: the straight-line fallback when a node is missing
TravelFallback(agents, from_agent_id, to_task) ==
    LET Fallback(i) ==
            IF i # 0 /\ agents[i].location.kind = "xy"
            THEN [cost |-> Hypot(to_task.location[1] - agents[i].location.x,
                                 to_task.location[2] - agents[i].location.y),
                  path |-> <<>>]
            ELSE [cost |-> 0, path |-> <<>>]
    IN Fallback(AgentIndexById(agents, from_agent_id))

\* calculate_travel_cost(from_agent_id, to_task, use_idastar): the pair
\* (cost, path); the planners call it with the default use_idastar = False
calculate_travel_cost(G, agents, from_agent_id, to_task, use_idastar) ==
    LET Between(start_node, goal_node) ==
            IF start_node = None \/ goal_node = None
            THEN TravelFallback(agents, from_agent_id, to_task)
            ELSE TravelBetween(G, start_node, goal_node, use_idastar)
    IN Between(get_agent_location_node(G, agents, from_agent_id),
               get_task_location_node(G, to_task))

\* _get_initial_agent_positions: agent_id -> node.  first_node is the value
\* of next(iter(self.graph.nodes), None): the first node in the iteration
\* order of a set of strings, or None for an empty graph.
RECURSIVE InitialPositionsFrom(_, _, _, _, _)
InitialPositionsFrom(G, agents, first_node, i, positions) ==
    IF i > Len(agents) THEN positions
    ELSE LET agent_id == IF agents[i].id = NoId THEN i - 1 ELSE agents[i].id
             node == get_agent_location_node(G, agents, agent_id)
             fallback == IF first_node # None THEN first_node
                                              ELSE DEFAULT_FALLBACK_NODE
             placed == IF node # None THEN node ELSE fallback
         IN InitialPositionsFrom(G, agents, first_node, i + 1,
               [a \in DOMAIN positions \cup {agent_id} |->
                   IF a = agent_id THEN placed ELSE positions[a]])

get_initial_agent_positions(G, agents, first_node) ==
    InitialPositionsFrom(G, agents, first_node, 1, <<>>)

\* int(x): truncation towards zero
ToInt(x) == IF x >= 0 THEN x \div Scale ELSE -((-x) \div Scale)

make_assignment(task, agent_id, start_time, total_cost, path) ==
    [task |-> task, agent_id |-> agent_id,
     start_time |-> ToInt(start_time),
     completion_time |-> ToInt(start_time + total_cost),
     resource_cost |-> DEFAULT_RESOURCE_COST,
     path |-> path]

\* (MAX_PRIORITY_FOR_PENALTY - priority) * 0.1
PriorityPenalty(task) == (MAX_PRIORITY_FOR_PENALTY - task.priority) * (Scale \div 10)

\* the cost of the step without the priority penalty
StepCostNoPenalty(G, agents, agent_id, task) ==
    LET Step(travel) ==
            [total_cost |-> travel.cost + task.estimated_duration * Scale,
             travel_cost |-> travel.cost,
             path |-> travel.path]
    IN Step(calculate_travel_cost(G, agents, agent_id, task, FALSE))

\* lines 518-523: the cost of the step that gives the task to the agent,
\* with the path travelled
StepCost(G, agents, agent_id, task) ==
    LET Step(travel) ==
            [total_cost |-> travel.cost + task.estimated_duration * Scale
                              + PriorityPenalty(task),
             travel_cost |-> travel.cost,
             path |-> travel.path]
    IN Step(calculate_travel_cost(G, agents, agent_id, task, FALSE))

\* the list of unassigned tasks without the filter on the assigned ids
UnassignedAll(tasks, assigned) == tasks

Unassigned(tasks, assigned) == SelectSeq(tasks, LAMBDA t : t.task_id \notin assigned)

\* _calculate_heuristic(remaining_tasks, {"agent_positions": ...})
RECURSIVE calculate_heuristic(_, _, _, _)
calculate_heuristic(G, agents, remaining_tasks, agent_positions) ==
    IF remaining_tasks = <<>> THEN 0
    ELSE LET task == Head(remaining_tasks)
             task_node == get_task_location_node(G, task)
             travel(agent_id) ==
                 IF task_node # None
                 THEN IF agent_positions[agent_id] = task_node THEN 0
                      ELSE heuristic(G, agent_positions[agent_id], task_node)
                 ELSE LET i == AgentIndexById(agents, agent_id)
                      IN IF i # 0 /\ agents[i].location.kind = "xy"
                         THEN Hypot(task.location[1] - agents[i].location.x,
                                    task.location[2] - agents[i].location.y)
                         ELSE 0
             totals == {travel(a) + task.estimated_duration * Scale :
                           a \in DOMAIN agent_positions}
             min_cost == IF totals = {} THEN task.estimated_duration * Scale
                                        ELSE SetMin(totals)
         IN min_cost + calculate_heuristic(G, agents, Tail(remaining_tasks),
                                           agent_positions)

-----------------------------------------------------------------------------
(* TaskPlanner._greedy_assignment *)

\* sorted(tasks, key=lambda t: t.priority, reverse=True): a stable sort, so
\* tasks of equal priority keep their input order
SortedByPriorityDesc(tasks) ==
    LET n == Len(tasks)
        pos(i) == Cardinality({j \in 1..n : tasks[j].priority > tasks[i].priority})
                  + Cardinality({j \in 1..(i - 1) :
                                    tasks[j].priority = tasks[i].priority}) + 1
    IN [k \in 1..n |-> tasks[CHOOSE i \in 1..n : pos(i) = k]]

\* the scan over the agents taking an agent of equal cost over the one held
RECURSIVE GreedyBestLastMin(_, _, _, _, _)
GreedyBestLastMin(G, agents, task, i, best) ==
    IF i > Len(agents) THEN best
    ELSE IF agents[i].id = NoId THEN GreedyBestLastMin(G, agents, task, i + 1, best)
    ELSE LET Better(travel, total_cost) ==
                 IF total_cost <= best.cost
                 THEN [agent_id |-> agents[i].id, cost |-> total_cost,
                       path |-> travel.path]
                 ELSE best
             Try(travel) ==
                 Better(travel, travel.cost + task.estimated_duration * Scale)
         IN GreedyBestLastMin(G, agents, task, i + 1,
                Try(calculate_travel_cost(G, agents, agents[i].id, task, FALSE)))

\* lines 757-770: the scan over the agents for one task, from agent i on
RECURSIVE GreedyBest(_, _, _, _, _)
GreedyBest(G, agents, task, i, best) ==
    IF i > Len(agents) THEN best
    ELSE IF agents[i].id = NoId THEN GreedyBest(G, agents, task, i + 1, best)
    ELSE LET Better(travel, total_cost) ==
                 IF total_cost < best.cost
                 THEN [agent_id |-> agents[i].id, cost |-> total_cost,
                       path |-> travel.path]
                 ELSE best
             Try(travel) ==
                 Better(travel, travel.cost + task.estimated_duration * Scale)
         IN GreedyBest(G, agents, task, i + 1,
                       Try(calculate_travel_cost(G, agents, agents[i].id, task, FALSE)))

RECURSIVE GreedyLoop(_, _, _, _, _)
GreedyLoop(G, agents, sorted, current_time, assignments) ==
    IF sorted = <<>> THEN assignments
    ELSE LET task == Head(sorted)
             Assign(best) ==
                 IF best.agent_id # NoId
                 THEN GreedyLoop(G, agents, Tail(sorted), current_time + best.cost,
                                 Append(assignments,
                                        make_assignment(task, best.agent_id,
                                                        current_time, best.cost,
                                                        best.path)))
                 ELSE GreedyLoop(G, agents, Tail(sorted), current_time, assignments)
         IN Assign(GreedyBest(G, agents, task, 1,
                              [agent_id |-> NoId, cost |-> Infinity, path |-> <<>>]))

greedy_assignment(G, agents, tasks) ==
    GreedyLoop(G, agents, SortedByPriorityDesc(tasks), 0, <<>>)

-----------------------------------------------------------------------------
(* TaskPlanner.plan_with_astar *)

GoalTasks(tasks) == {tasks[i].task_id : i \in 1..Len(tasks)}

\* AssignmentState.__eq__ / __hash__: what makes two states the same key
StateKey(st) == <<st.assigned_tasks, st.agent_positions, st.current_time>>

PlanIdle == [status |-> "idle", tasks |-> <<>>, open |-> {}, closed |-> {},
             g_scores |-> {}, state_counter |-> 0, expanded |-> 0,
             used_greedy |-> FALSE, result |-> <<>>]

\* lines 437-491: the early returns, or the initial open set
PlanStart(G, agents, first_node, tasks) ==
    IF tasks = <<>> \/ agents = <<>>
    THEN [PlanIdle EXCEPT !.status = "done", !.tasks = tasks]
    ELSE LET initial_state ==
                 [assigned_tasks |-> {},
                  agent_positions |-> get_initial_agent_positions(G, agents, first_node),
                  current_time |-> 0, assignments |-> <<>>, counter |-> 0]
         IN [PlanIdle EXCEPT
                !.status = "run", !.tasks = tasks,
                !.open = {[f |-> 0, g |-> 0, counter |-> 0, state |-> initial_state]},
                !.g_scores = {<<StateKey(initial_state), 0>>},
                !.state_counter = 1]

GHas(g_scores, key) == \E e \in g_scores : e[1] = key

GGet(g_scores, key) == (CHOOSE e \in g_scores : e[1] = key)[2]

GSet(g_scores, key, g) == {e \in g_scores : e[1] # key} \cup {<<key, g>>}

\* heapq.heappop on entries (f_score, g_score, counter, state)
PlanHeapMin(open) ==
    CHOOSE e \in open : \A o \in open :
        \/ o = e
        \/ e.f < o.f
        \/ e.f = o.f /\ e.g < o.g
        \/ e.f = o.f /\ e.g = o.g /\ e.counter < o.counter

\* lines 517-544: the successor of a state that gives the task to the agent
Successor(G, agents, st, task, agent_id, counter) ==
    LET NewState(step, task_node) ==
            [assigned_tasks |-> st.assigned_tasks \cup {task.task_id},
             agent_positions |->
                 IF task_node # None
                 THEN [a \in DOMAIN st.agent_positions \cup {agent_id} |->
                          IF a = agent_id THEN task_node ELSE st.agent_positions[a]]
                 ELSE st.agent_positions,
             current_time |-> st.current_time + step.total_cost,
             assignments |-> Append(st.assignments,
                                    make_assignment(task, agent_id, st.current_time,
                                                    step.total_cost, step.path)),
             counter |-> counter]
    IN NewState(StepCost(G, agents, agent_id, task),
                get_task_location_node(G, task))

\* the loops pushing every generated state, recorded or not
RECURSIVE PlanExpandNoDedup(_, _, _, _, _, _, _)
PlanExpandNoDedup(G, agents, s, cur, unassigned, ti, ai) ==
    IF ti > Len(unassigned) THEN s
    ELSE IF ai > Len(agents) THEN PlanExpandNoDedup(G, agents, s, cur, unassigned, ti + 1, 1)
    ELSE IF agents[ai].id = NoId
    THEN PlanExpandNoDedup(G, agents, s, cur, unassigned, ti, ai + 1)
    ELSE LET task == unassigned[ti]
             s1 == [s EXCEPT !.state_counter = @ + 1]
             Push(new_state, tentative_g, h_score) ==
                 [s1 EXCEPT
                     !.g_scores = GSet(@, StateKey(new_state), tentative_g),
                     !.open = @ \cup {[f |-> tentative_g + h_score,
                                       g |-> tentative_g,
                                       counter |-> new_state.counter,
                                       state |-> new_state]}]
             Visit(new_state, tentative_g) ==
                 Push(new_state, tentative_g,
                      calculate_heuristic(G, agents,
                          Unassigned(s.tasks, new_state.assigned_tasks),
                          new_state.agent_positions))
         IN PlanExpandNoDedup(G, agents,
                Visit(Successor(G, agents, cur.state, task, agents[ai].id,
                                s.state_counter),
                      cur.g + StepCost(G, agents, agents[ai].id, task).total_cost),
                cur, unassigned, ti, ai + 1)

\* lines 510-556: the loops over the unassigned tasks (from the ti-th) and
\* the agents (from the ai-th) for the popped entry cur
RECURSIVE PlanExpand(_, _, _, _, _, _, _)
PlanExpand(G, agents, s, cur, unassigned, ti, ai) ==
    IF ti > Len(unassigned) THEN s
    ELSE IF ai > Len(agents) THEN PlanExpand(G, agents, s, cur, unassigned, ti + 1, 1)
    ELSE IF agents[ai].id = NoId
    THEN PlanExpand(G, agents, s, cur, unassigned, ti, ai + 1)
    ELSE LET task == unassigned[ti]
             s1 == [s EXCEPT !.state_counter = @ + 1]
             Push(new_state, tentative_g, h_score) ==
                 [s1 EXCEPT
                     !.g_scores = GSet(@, StateKey(new_state), tentative_g),
                     !.open = @ \cup {[f |-> tentative_g + h_score,
                                       g |-> tentative_g,
                                       counter |-> new_state.counter,
                                       state |-> new_state]}]
             Visit(new_state, tentative_g) ==
                 IF ~GHas(s.g_scores, StateKey(new_state))
                    \/ tentative_g < GGet(s.g_scores, StateKey(new_state))
                 THEN Push(new_state, tentative_g,
                           calculate_heuristic(G, agents,
                               Unassigned(s.tasks, new_state.assigned_tasks),
                               new_state.agent_positions))
                 ELSE s1
         IN PlanExpand(G, agents,
                Visit(Successor(G, agents, cur.state, task, agents[ai].id,
                                s.state_counter),
                      cur.g + StepCost(G, agents, agents[ai].id, task).total_cost),
                cur, unassigned, ti, ai + 1)

\* the while loop with the goal test written as a subset test
PlanIterateSubsetGoal(G, agents, s) ==
    IF s.open = {}
    THEN [s EXCEPT !.status = "done", !.used_greedy = TRUE,
                   !.result = greedy_assignment(G, agents, s.tasks)]
    ELSE LET cur == PlanHeapMin(s.open)
             s1 == [s EXCEPT !.open = @ \ {cur}]
         IN IF StateKey(cur.state) \in s.closed THEN s1
            ELSE LET s2 == [s1 EXCEPT !.closed = @ \cup {StateKey(cur.state)},
                                      !.expanded = @ + 1]
                 IN IF cur.state.assigned_tasks \subseteq GoalTasks(s.tasks)
                    THEN [s2 EXCEPT !.status = "done",
                                    !.result = cur.state.assignments]
                    ELSE PlanExpand(G, agents, s2, cur,
                                    Unassigned(s.tasks, cur.state.assigned_tasks),
                                    1, 1)

\* lines 495-559: one iteration of the while loop, and the greedy return
\* after the loop when the open set has run empty
PlanIterate(G, agents, s) ==
    IF s.open = {}
    THEN [s EXCEPT !.status = "done", !.used_greedy = TRUE,
                   !.result = greedy_assignment(G, agents, s.tasks)]
    ELSE LET cur == PlanHeapMin(s.open)
             s1 == [s EXCEPT !.open = @ \ {cur}]
         IN IF StateKey(cur.state) \in s.closed THEN s1
            ELSE LET s2 == [s1 EXCEPT !.closed = @ \cup {StateKey(cur.state)},
                                      !.expanded = @ + 1]
                 IN IF cur.state.assigned_tasks = GoalTasks(s.tasks)
                    THEN [s2 EXCEPT !.status = "done",
                                    !.result = cur.state.assignments]
                    ELSE PlanExpand(G, agents, s2, cur,
                                    Unassigned(s.tasks, cur.state.assigned_tasks),
                                    1, 1)

RECURSIVE PlanRun(_, _, _)
PlanRun(G, agents, s) ==
    IF s.status = "done" THEN s ELSE PlanRun(G, agents, PlanIterate(G, agents, s))

plan_with_astar(G, agents, first_node, tasks) ==
    PlanRun(G, agents, PlanStart(G, agents, first_node, tasks)).result

-----------------------------------------------------------------------------
(* TaskPlanner.plan_with_beam_search *)

BeamIdle == [status |-> "idle", tasks |-> <<>>, beam_width |-> 0,
             current_level |-> <<>>, plies |-> 0, used_greedy |-> FALSE,
             result |-> <<>>]

\* plan_with_beam_search without the early return for an empty agent list
BeamStartNoAgentCheck(G, agents, first_node, tasks, beam_width) ==
    IF tasks = <<>>
    THEN [BeamIdle EXCEPT !.status = "done", !.tasks = tasks,
                          !.beam_width = beam_width]
    ELSE [BeamIdle EXCEPT
             !.status = "run", !.tasks = tasks, !.beam_width = beam_width,
             !.current_level =
                 <<[assigned_tasks |-> {},
                    agent_positions |-> get_initial_agent_positions(G, agents, first_node),
                    current_time |-> 0, assignments |-> <<>>, g_score |-> 0]>>]

\* lines 597-627: the early returns, or the initial frontier
BeamStart(G, agents, first_node, tasks, beam_width) ==
    IF tasks = <<>> \/ agents = <<>>
    THEN [BeamIdle EXCEPT !.status = "done", !.tasks = tasks,
                          !.beam_width = beam_width]
    ELSE [BeamIdle EXCEPT
             !.status = "run", !.tasks = tasks, !.beam_width = beam_width,
             !.current_level =
                 <<[assigned_tasks |-> {},
                    agent_positions |-> get_initial_agent_positions(G, agents, first_node),
                    current_time |-> 0, assignments |-> <<>>, g_score |-> 0]>>]

\* lines 646-668: the successor BeamState
BeamSuccessor(G, agents, st, task, agent_id) ==
    LET NewState(step, task_node) ==
            [assigned_tasks |-> st.assigned_tasks \cup {task.task_id},
             agent_positions |->
                 IF task_node # None
                 THEN [a \in DOMAIN st.agent_positions \cup {agent_id} |->
                          IF a = agent_id THEN task_node ELSE st.agent_positions[a]]
                 ELSE st.agent_positions,
             current_time |-> st.current_time + step.total_cost,
             assignments |-> Append(st.assignments,
                                    make_assignment(task, agent_id, st.current_time,
                                                    step.total_cost, step.path)),
             g_score |-> st.g_score + step.total_cost]
    IN NewState(StepCost(G, agents, agent_id, task),
                get_task_location_node(G, task))

\* lines 640-677: the successors of one state, as (f_score, state) pairs in
\* generation order, from the ti-th unassigned task and the ai-th agent on
RECURSIVE BeamExpand(_, _, _, _, _, _, _, _)
BeamExpand(G, agents, tasks, st, unassigned, ti, ai, acc) ==
    IF ti > Len(unassigned) THEN acc
    ELSE IF ai > Len(agents)
    THEN BeamExpand(G, agents, tasks, st, unassigned, ti + 1, 1, acc)
    ELSE IF agents[ai].id = NoId
    THEN BeamExpand(G, agents, tasks, st, unassigned, ti, ai + 1, acc)
    ELSE LET Scored(new_state) ==
                 [f |-> new_state.g_score
                          + calculate_heuristic(G, agents,
                                Unassigned(tasks, new_state.assigned_tasks),
                                new_state.agent_positions),
                  state |-> new_state]
         IN BeamExpand(G, agents, tasks, st, unassigned, ti, ai + 1,
                       Append(acc, Scored(BeamSuccessor(G, agents, st, unassigned[ti],
                                                        agents[ai].id))))

\* next_level left in generation order
SortedByFUnsorted(level) == level

\* next_level.sort(key=lambda x: x[0]): a stable sort on f_score
SortedByF(level) ==
    LET n == Len(level)
        pos(i) == Cardinality({j \in 1..n : level[j].f < level[i].f})
                  + Cardinality({j \in 1..(i - 1) : level[j].f = level[i].f}) + 1
    IN [k \in 1..n |-> level[CHOOSE i \in 1..n : pos(i) = k]]

\* next_level[:beam_width - 1]: one state fewer than the beam width
TruncateOneShort(level, beam_width) ==
    [k \in 1..(IF Len(level) < beam_width - 1 THEN Len(level) ELSE beam_width - 1) |->
        level[k].state]

\* next_level[:beam_width], for beam_width >= 0
Truncate(level, beam_width) ==
    [k \in 1..(IF Len(level) < beam_width THEN Len(level) ELSE beam_width) |->
        level[k].state]

\* the frontier loop returning the last state of a goal frontier, not the
\* first
RECURSIVE BeamLevelReturnLast(_, _, _, _, _)
BeamLevelReturnLast(G, agents, s, i, next_level) ==
    IF i > Len(s.current_level)
    THEN [s EXCEPT !.current_level = Truncate(SortedByF(next_level), s.beam_width),
                   !.plies = @ + 1]
    ELSE LET state == s.current_level[i]
         IN IF state.assigned_tasks = GoalTasks(s.tasks)
            THEN [s EXCEPT !.status = "done",
                           !.result = s.current_level[Len(s.current_level)].assignments]
            ELSE BeamLevelReturnLast(G, agents, s, i + 1,
                           BeamExpand(G, agents, s.tasks, state,
                                      Unassigned(s.tasks, state.assigned_tasks),
                                      1, 1, next_level))

\* lines 633-677: the loop over the states of the frontier, from the i-th on;
\* returns the assignments of a goal state met on the way
RECURSIVE BeamLevel(_, _, _, _, _)
BeamLevel(G, agents, s, i, next_level) ==
    IF i > Len(s.current_level)
    THEN [s EXCEPT !.current_level = Truncate(SortedByF(next_level), s.beam_width),
                   !.plies = @ + 1]
    ELSE LET state == s.current_level[i]
         IN IF state.assigned_tasks = GoalTasks(s.tasks)
            THEN [s EXCEPT !.status = "done", !.result = state.assignments]
            ELSE BeamLevel(G, agents, s, i + 1,
                           BeamExpand(G, agents, s.tasks, state,
                                      Unassigned(s.tasks, state.assigned_tasks),
                                      1, 1, next_level))

\* lines 630-684: one iteration of the while loop, and the greedy return
\* after the loop when the frontier has run empty
BeamIterate(G, agents, s) ==
    IF s.current_level = <<>>
    THEN [s EXCEPT !.status = "done", !.used_greedy = TRUE,
                   !.result = greedy_assignment(G, agents, s.tasks)]
    ELSE BeamLevel(G, agents, s, 1, <<>>)

RECURSIVE BeamRun(_, _, _)
BeamRun(G, agents, s) ==
    IF s.status = "done" THEN s ELSE BeamRun(G, agents, BeamIterate(G, agents, s))

plan_with_beam_search(G, agents, first_node, tasks, beam_width) ==
    BeamRun(G, agents, BeamStart(G, agents, first_node, tasks, beam_width)).result

-----------------------------------------------------------------------------
(* Graphs and queries the pathfinders are run on *)

MaxCustomEdges == 2

CustomNodes == {"n1", "n2", "n3"}

CustomCosts == {1 * Scale, 5 * Scale}

\* the add_edge calls a custom graph is built from
EdgeOps == {op \in [from : CustomNodes, to : CustomNodes, cost : CustomCosts,
                    bidirectional : BOOLEAN] : op.from # op.to}

EdgeOpSeqs == UNION {[1..k -> EdgeOps] : k \in 0..MaxCustomEdges}

RECURSIVE BuildGraph(_, _, _)
BuildGraph(G, ops, i) ==
    IF i > Len(ops) THEN G
    ELSE BuildGraph(add_edge(G, ops[i].from, ops[i].to, ops[i].cost,
                             ops[i].bidirectional), ops, i + 1)

\* three nodes with positions (a 3-4-5 triangle) and no edge yet
PositionedBase ==
    add_node(add_node(add_node(EmptyGraph, "n1", <<0, 0>>), "n2", <<3, 0>>),
             "n3", <<3, 4>>)

CustomGraphs == {BuildGraph(base, ops, 1) :
                    base \in {EmptyGraph, PositionedBase}, ops \in EdgeOpSeqs}

\* two routes from n1 to n2, the direct edge dearer than the detour over n3
\* or as dear, and a node n4 that no edge leads to
DetourCosts == {2 * Scale, 5 * Scale}

DetourOps(cost) ==
    <<[from |-> "n1", to |-> "n2", cost |-> cost, bidirectional |-> FALSE],
      [from |-> "n1", to |-> "n3", cost |-> 1 * Scale, bidirectional |-> FALSE],
      [from |-> "n3", to |-> "n2", cost |-> 1 * Scale, bidirectional |-> FALSE],
      [from |-> "n4", to |-> "n1", cost |-> 1 * Scale, bidirectional |-> FALSE]>>

DetourGraphs == {BuildGraph(base, DetourOps(cost), 1) :
                    base \in {EmptyGraph, PositionedBase}, cost \in DetourCosts}

PathGraphs == {create_default_colony_graph} \cup CustomGraphs \cup DetourGraphs

\* node ids a caller may ask about: the graph's nodes and one absent id
QueryNodes(G) == G.nodes \cup {"ghost"}

-----------------------------------------------------------------------------
(* Specification of the pathfinders *)

TypeOK ==
    /\ graph.nodes \subseteq SeqRange(NodeOrder)
    /\ astar.status \in {"idle", "run", "done"}
    /\ ida.status \in {"idle", "run", "done"}

NoQuery == [start |-> None, goal |-> None]

PathInit ==
    /\ graph \in PathGraphs
    /\ query \in [start : QueryNodes(graph), goal : QueryNodes(graph)]
    /\ astar = AStarIdle
    /\ ida = IdaIdle
    /\ colony = <<>>
    /\ iter_first = None
    /\ plan = PlanIdle
    /\ beam = BeamIdle
    /\ calls = <<>>

AStarPathCall ==
    /\ astar.status = "idle"
    /\ astar' = AStarStart(graph, query.start, query.goal)
    /\ UNCHANGED <<graph, query, ida, colony, iter_first, plan, beam, calls>>

AStarPathStep ==
    /\ astar.status = "run"
    /\ astar' = AStarIterate(graph, query.goal, astar)
    /\ UNCHANGED <<graph, query, ida, colony, iter_first, plan, beam, calls>>

IdaStarPathCall ==
    /\ astar.status = "done"
    /\ ida.status = "idle"
    /\ ida' = IdaStart(graph, query.start, query.goal)
    /\ UNCHANGED <<graph, query, astar, colony, iter_first, plan, beam, calls>>

IdaStarPathStep ==
    /\ ida.status = "run"
    /\ ida' = IdaIterate(graph, query.start, query.goal, ida)
    /\ UNCHANGED <<graph, query, astar, colony, iter_first, plan, beam, calls>>

PathNext == AStarPathCall \/ AStarPathStep \/ IdaStarPathCall \/ IdaStarPathStep

SpecPath == PathInit /\ [][PathNext]_vars

\* Both pathfinders are loops that never wait: a call that can take a step
\* takes it.
SpecPathFair == PathInit /\ [][PathNext]_vars /\ WF_vars(PathNext)

-----------------------------------------------------------------------------
(* Colonies and task lists the planner is run on *)

MaxAgents == 2

MaxTasks == 4

MaxBeamWidth == 2

AgentPool == <<Agent(0, XY(0, 10)), Agent(1, XY(20, 0)), Agent(2, NoLocation),
               Agent(3, Named("storage")), Agent(NoId, XY(0, 0))>>

TaskPool == <<Task("t1", <<20, 0>>, 10, 3), Task("t2", <<10, 0>>, 5, 0),
              Task("t3", <<0, 10>>, 5, 1), Task("t4", <<20, 10>>, 5, 2)>>

\* the sublists of at most max members of a pool, in the pool's order
Increasing(k, n) ==
    {g \in [1..k -> 1..n] : \A i, j \in 1..k : i < j => g[i] < g[j]}

Picks(pool, max) ==
    UNION {{[i \in 1..k |-> pool[g[i]]] : g \in Increasing(k, Len(pool))} :
              k \in 0..max}

Colonies == Picks(AgentPool, MaxAgents)

\* tasks whose priority lies above MAX_PRIORITY_FOR_PENALTY
UrgentPool == <<Task("u1", <<0, 10>>, 20, 0), Task("u2", <<20, 0>>, 10, 1)>>

\* an urgent task among ordinary ones
MixedLists == {<<TaskPool[2], TaskPool[3], UrgentPool[1]>>}

TaskLists ==
    Picks(TaskPool, MaxTasks) \cup Picks(UrgentPool, Len(UrgentPool)) \cup MixedLists

BeamWidths == 0..MaxBeamWidth

\* some agent is placed on the fallback node
NeedsFallback(G, agents) ==
    \E i \in 1..Len(agents) :
        get_agent_location_node(G, agents,
            IF agents[i].id = NoId THEN i - 1 ELSE agents[i].id) = None

-----------------------------------------------------------------------------
(* Specification of the planner *)

\* The iteration order of a set of strings is not fixed by the program: any
\* node may come first.  The choice is only read when an agent needs the
\* fallback node.
PlanInit ==
    /\ graph = create_default_colony_graph
    /\ colony \in Colonies
    /\ iter_first \in IF NeedsFallback(graph, colony) THEN graph.nodes
                                                      ELSE {DEFAULT_FALLBACK_NODE}
    /\ plan = PlanIdle
    /\ beam = BeamIdle
    /\ query = NoQuery
    /\ astar = AStarIdle
    /\ ida = IdaIdle
    /\ calls = <<>>

\* The caller plans a task list with plan_with_astar and then plans the same
\* list with plan_with_beam_search.
PlanWithAstarCall ==
    /\ plan.status = "idle"
    /\ \E tasks \in TaskLists :
           plan' = PlanStart(graph, colony, iter_first, tasks)
    /\ UNCHANGED <<graph, query, astar, ida, colony, iter_first, beam, calls>>

PlanWithAstarStep ==
    /\ plan.status = "run"
    /\ plan' = PlanIterate(graph, colony, plan)
    /\ UNCHANGED <<graph, query, astar, ida, colony, iter_first, beam, calls>>

PlanWithBeamSearchCall ==
    /\ plan.status = "done"
    /\ beam.status = "idle"
    /\ \E beam_width \in BeamWidths :
           beam' = BeamStart(graph, colony, iter_first, plan.tasks, beam_width)
    /\ UNCHANGED <<graph, query, astar, ida, colony, iter_first, plan, calls>>

\* plan_with_beam_search's loop writing the fallback node into the location
\* of every agent of the colony state
PlanWithBeamSearchStepMovesAgents ==
    /\ beam.status = "run"
    /\ beam' = BeamIterate(graph, colony, beam)
    /\ colony' = [i \in 1..Len(colony) |->
                    [colony[i] EXCEPT !.location = Named(DEFAULT_FALLBACK_NODE)]]
    /\ UNCHANGED <<graph, query, astar, ida, iter_first, plan, calls>>

PlanWithBeamSearchStep ==
    /\ beam.status = "run"
    /\ beam' = BeamIterate(graph, colony, beam)
    /\ UNCHANGED <<graph, query, astar, ida, colony, iter_first, plan, calls>>

PlanNext ==
    \/ PlanWithAstarCall
    \/ PlanWithAstarStep
    \/ PlanWithBeamSearchCall
    \/ PlanWithBeamSearchStep

SpecPlan == PlanInit /\ [][PlanNext]_vars

-----------------------------------------------------------------------------
(* Specification of the planner on graphs where the travel cost cannot come
   from a path *)

\* three placed nodes and one edge, from n2 to n3 only
OneWayGraph == add_edge(PositionedBase, "n2", "n3", 1 * Scale, FALSE)

\* two nodes without positions: no location maps to a node
UnplacedGraph == add_edge(EmptyGraph, "n1", "n2", 1 * Scale, TRUE)

TravelGraphs == {OneWayGraph, UnplacedGraph}

TravelInit ==
    /\ graph \in TravelGraphs
    /\ colony \in Colonies
    /\ iter_first \in IF NeedsFallback(graph, colony) THEN graph.nodes
                                                      ELSE {DEFAULT_FALLBACK_NODE}
    /\ plan = PlanIdle
    /\ beam = BeamIdle
    /\ query = NoQuery
    /\ astar = AStarIdle
    /\ ida = IdaIdle
    /\ calls = <<>>

SpecTravel == TravelInit /\ [][PlanNext]_vars

-----------------------------------------------------------------------------
(* Specification of the whole module: a caller with a path query runs the
   pathfinders, a caller without one runs the planners *)

AllInit == PathInit \/ PlanInit

AllNext ==
    \/ query # NoQuery /\ PathNext
    \/ query = NoQuery /\ PlanNext

SpecAll == AllInit /\ [][AllNext]_vars

-----------------------------------------------------------------------------
(* Specification of a caller building a graph call by call *)

MaxGraphCalls == 3

\* positions a caller passes to add_node: none, or a point
NodePositions == {NoPos, <<3, 4>>}

NodeCall(node_id, position) ==
    [op |-> "add_node", from |-> node_id, to |-> None, cost |-> 0,
     bidirectional |-> FALSE, position |-> position]

EdgeCall(e) ==
    [op |-> "add_edge", from |-> e.from, to |-> e.to, cost |-> e.cost,
     bidirectional |-> e.bidirectional, position |-> NoPos]

GraphInit ==
    /\ graph = EmptyGraph
    /\ calls = <<>>
    /\ query = NoQuery
    /\ astar = AStarIdle
    /\ ida = IdaIdle
    /\ colony = <<>>
    /\ iter_first = None
    /\ plan = PlanIdle
    /\ beam = BeamIdle

AddNode ==
    /\ Len(calls) < MaxGraphCalls
    /\ \E node_id \in CustomNodes, position \in NodePositions :
           /\ graph' = add_node(graph, node_id, position)
           /\ calls' = Append(calls, NodeCall(node_id, position))
    /\ UNCHANGED <<query, astar, ida, colony, iter_first, plan, beam>>

AddEdge ==
    /\ Len(calls) < MaxGraphCalls
    /\ \E e \in EdgeOps :
           /\ graph' = add_edge(graph, e.from, e.to, e.cost, e.bidirectional)
           /\ calls' = Append(calls, EdgeCall(e))
    /\ UNCHANGED <<query, astar, ida, colony, iter_first, plan, beam>>

GraphNext == AddNode \/ AddEdge

SpecGraph == GraphInit /\ [][GraphNext]_vars


-----------------------------------------------------------------------------
(* Reference notions the pathfinder properties are stated against *)

Successors(G, n) ==
    {get_neighbors(G, n)[i][1] : i \in 1..Len(get_neighbors(G, n))}

HasEdge(G, u, v) == HasKey(get_neighbors(G, u), v)

EdgeCost(G, u, v) == Lookup(get_neighbors(G, u), v)

\* nodes reachable from the set S along directed edges
RECURSIVE ReachableFrom(_, _)
ReachableFrom(G, S) ==
    LET T == S \cup UNION {Successors(G, n) : n \in S}
    IN IF T = S THEN S ELSE ReachableFrom(G, T)

IsReachable(G, a, b) ==
    a \in G.nodes /\ b \in G.nodes /\ b \in ReachableFrom(G, {a})

\* Bellman-Ford: k rounds of relaxation of the distance map d
RECURSIVE Relaxed(_, _, _)
Relaxed(G, d, k) ==
    IF k = 0 THEN d
    ELSE Relaxed(G,
                 [v \in G.nodes |->
                    SetMin({d[v]} \cup {d[u] + EdgeCost(G, u, v) :
                              u \in {w \in G.nodes : HasEdge(G, w, v)
                                                     /\ d[w] < Infinity}})],
                 k - 1)

\* the least sum of edge costs over all paths from a to b (Infinity if none)
ShortestCost(G, a, b) ==
    Relaxed(G, [v \in G.nodes |-> IF v = a THEN 0 ELSE Infinity],
            Cardinality(G.nodes))[b]

\* every consecutive pair of the path is a directed edge
IsGraphPath(G, path) ==
    \A i \in 1..(Len(path) - 1) : HasEdge(G, path[i], path[i + 1])

RECURSIVE PathEdgeSum(_, _)
PathEdgeSum(G, path) ==
    IF Len(path) < 2 THEN 0
    ELSE EdgeCost(G, path[1], path[2]) + PathEdgeSum(G, Tail(path))

NoRepeat(path) == \A i, j \in 1..Len(path) : i # j => path[i] # path[j]

BothDone == astar.status = "done" /\ ida.status = "done"

IsDefaultGraph == graph = create_default_colony_graph

-----------------------------------------------------------------------------
(* Properties of the pathfinders *)

\* C1: whenever goal is reachable from start, astar_path and idastar_path
\* both return found = true and the same total cost.
C1_EqualCost ==
    (BothDone /\ IsReachable(graph, query.start, query.goal))
        => /\ astar.result.found
           /\ ida.result.found
           /\ astar.result.cost = ida.result.cost

\* C2: for reachable pairs, the cost astar_path returns and the cost
\* idastar_path returns are both the least cost of any path from start to
\* goal.
C2_Optimal ==
    (BothDone /\ IsReachable(graph, query.start, query.goal))
        => /\ astar.result.cost = ShortestCost(graph, query.start, query.goal)
           /\ ida.result.cost = ShortestCost(graph, query.start, query.goal)

WellFormedResult(r) ==
    r.found => /\ Len(r.path) >= 1
               /\ r.path[1] = query.start
               /\ r.path[Len(r.path)] = query.goal
               /\ IsGraphPath(graph, r.path)
               /\ NoRepeat(r.path)
               /\ r.cost = PathEdgeSum(graph, r.path)

\* C3: a found path starts at start, ends at goal, follows directed edges of
\* the graph, repeats no node, and its cost is the sum of the costs of
\* exactly those edges.
C3_PathWellFormed ==
    /\ astar.status = "done" => WellFormedResult(astar.result)
    /\ ida.status = "done" => WellFormedResult(ida.result)

\* both searches returned a path of at least two edges
C3_Witness ==
    /\ BothDone
    /\ astar.result.found /\ Len(astar.result.path) >= 3
    /\ ida.result.found /\ Len(ida.result.path) >= 3

\* C4: for a node n of the graph, astar_path(n, n) and idastar_path(n, n)
\* return path [n], cost 0 and found = true.
C4_SameNode ==
    (query.start = query.goal /\ query.start \in graph.nodes)
        => /\ astar.status = "done"
                => astar.result = PathResult(<<query.start>>, 0, TRUE)
           /\ ida.status = "done"
                => ida.result = PathResult(<<query.start>>, 0, TRUE)

C4_Witness ==
    BothDone /\ query.start = query.goal /\ query.start \in graph.nodes

\* C5: the pathfinders return found = true exactly when goal is reachable
\* from start, and otherwise (an endpoint that is not a node, or no
\* connecting path) the not-found PathResult(path=[], cost=0.0, found=False).
C5_NotFoundIffUnreachable ==
    /\ astar.status = "done"
         => /\ astar.result.found <=> IsReachable(graph, query.start, query.goal)
            /\ ~astar.result.found => astar.result = NotFound
    /\ ida.status = "done"
         => /\ ida.result.found <=> IsReachable(graph, query.start, query.goal)
            /\ ~ida.result.found => ida.result = NotFound

\* both searches ran their loops on two graph nodes and found no path
C5_Witness ==
    /\ BothDone
    /\ query.start \in graph.nodes /\ query.goal \in graph.nodes
    /\ get_neighbors(graph, query.start) # <<>>
    /\ ~astar.result.found /\ ~ida.result.found

\* C6: on the default graph the heuristic of every pair of nodes is at most
\* the true shortest-path cost between them, taken from astar_path's result.
C6_HeuristicAdmissible ==
    (IsDefaultGraph /\ astar.status = "done" /\ astar.result.found)
        => heuristic(graph, query.start, query.goal) <= astar.result.cost

-----------------------------------------------------------------------------
(* Reference notions the planner properties are stated against *)

AllHaveIds(agents) == \A i \in 1..Len(agents) : agents[i].id # NoId

AgentIds(agents) == {agents[i].id : i \in 1..Len(agents)} \ {NoId}

AssignedIds(assignments) ==
    {assignments[i].task.task_id : i \in 1..Len(assignments)}

\* each requested task id is the task of exactly one assignment
OneAssignmentPerTask(tasks, assignments) ==
    \A t \in 1..Len(tasks) :
        Cardinality({i \in 1..Len(assignments) :
                        assignments[i].task.task_id = tasks[t].task_id}) = 1

\* total cost of a plan: the sum over its assignments of travel cost +
\* duration + priority penalty
RECURSIVE PlanTotalCost(_, _, _)
PlanTotalCost(G, agents, assignments) ==
    IF assignments = <<>> THEN 0
    ELSE StepCost(G, agents, Head(assignments).agent_id,
                  Head(assignments).task).total_cost
         + PlanTotalCost(G, agents, Tail(assignments))

RECURSIVE ChoiceCost(_, _, _, _, _)
ChoiceCost(G, agents, tasks, choice, i) ==
    IF i > Len(tasks) THEN 0
    ELSE StepCost(G, agents, choice[i], tasks[i]).total_cost
         + ChoiceCost(G, agents, tasks, choice, i + 1)

\* the least total cost of a complete assignment sequence.  A step's cost
\* depends on the agent and the task only, so the order of the steps does
\* not change the total and the minimum ranges over the choices of an agent
\* per task.
MinPlanCost(G, agents, tasks) ==
    SetMin({ChoiceCost(G, agents, tasks, choice, 1) :
               choice \in [1..Len(tasks) -> AgentIds(agents)]})

-----------------------------------------------------------------------------
(* Properties of the planner *)

\* C7: for k tasks with distinct ids and at least one agent, every agent
\* having an id, plan_with_astar returns exactly k assignments and every
\* requested task id appears in exactly one of them.
C7_OneAssignmentPerTask ==
    (plan.status = "done" /\ colony # <<>> /\ AllHaveIds(colony))
        => /\ Len(plan.result) = Len(plan.tasks)
           /\ OneAssignmentPerTask(plan.tasks, plan.result)

\* plan_with_astar has returned for four tasks and two agents
C7_Witness ==
    /\ plan.status = "done"
    /\ Len(colony) = 2 /\ AllHaveIds(colony)
    /\ Len(plan.tasks) = 4
    /\ Len(plan.result) = 4

\* C8: with an empty task list or a colony without agents, plan_with_astar
\* and plan_with_beam_search (for any beam width) return an empty list
\* without running a search step or the greedy fallback.
C8_EmptyInputs ==
    /\ (plan.status = "done" /\ (plan.tasks = <<>> \/ colony = <<>>))
          => plan.result = <<>> /\ plan.expanded = 0 /\ ~plan.used_greedy
    /\ (beam.status = "done" /\ (beam.tasks = <<>> \/ colony = <<>>))
          => beam.result = <<>> /\ beam.plies = 0 /\ ~beam.used_greedy

\* both planners have returned for a non-empty task list and no agent
C8_Witness ==
    /\ plan.status = "done" /\ beam.status = "done"
    /\ beam.tasks # <<>> /\ colony = <<>>
    /\ beam.beam_width > 0

\* C9: the plan plan_with_astar returns has the least total cost among all
\* complete assignment sequences under the same step-cost model.
C9_MinimalCost ==
    (plan.status = "done" /\ plan.tasks # <<>> /\ colony # <<>>
        /\ AllHaveIds(colony))
        => PlanTotalCost(graph, colony, plan.result)
              = MinPlanCost(graph, colony, plan.tasks)

\* the beam result is no dearer than the result of any narrower beam
NoDearerThanNarrower ==
    \A w1 \in 1..(beam.beam_width - 1) :
        PlanTotalCost(graph, colony, beam.result)
            <= PlanTotalCost(graph, colony,
                   plan_with_beam_search(graph, colony, iter_first, beam.tasks, w1))

\* C10 as stated: for beam widths 1 <= w1 < w2 the total cost of the plan
\* for w2 is at most that of the plan for w1.
C10_BeamMonotone ==
    beam.status = "done" => NoDearerThanNarrower

\* C10 as amended: the same, for task lists of at most two tasks.
C10_BeamMonotoneUpToTwoTasks ==
    (beam.status = "done" /\ Len(beam.tasks) <= 2) => NoDearerThanNarrower

\* beam search of width 2 has returned a plan for two tasks and two agents
\* that is strictly cheaper than the plan of width 1
C10_Witness ==
    /\ beam.status = "done" /\ beam.beam_width = 2
    /\ Len(beam.tasks) = 2 /\ Len(colony) = 2
    /\ PlanTotalCost(graph, colony, beam.result)
          < PlanTotalCost(graph, colony,
                plan_with_beam_search(graph, colony, iter_first, beam.tasks, 1))

\* every assignment of the list starts at a time >= 0 and completes no
\* earlier than it starts
TimesOrdered(assignments) ==
    \A i \in 1..Len(assignments) :
        /\ assignments[i].start_time >= 0
        /\ assignments[i].completion_time >= assignments[i].start_time

\* C11: every assignment returned by plan_with_astar, plan_with_beam_search
\* or the greedy fallback has completion_time >= start_time and
\* start_time >= 0.
C11_TimesOrdered ==
    /\ plan.status = "done" => TimesOrdered(plan.result)
    /\ beam.status = "done" => TimesOrdered(beam.result)

\* C12: a step of astar_path, idastar_path, plan_with_astar,
\* plan_with_beam_search or the greedy fallback leaves the colony state (the
\* agent list and every agent's fields) and the graph (nodes, edges and
\* node positions) as they were.
C12_ReadOnly == [][graph' = graph /\ colony' = colony]_vars

\* both planners have searched for a non-empty colony and task list, and
\* beam search has returned the greedy fallback's assignments
C12_Witness ==
    /\ plan.status = "done" /\ plan.expanded > 1
    /\ beam.status = "done" /\ beam.used_greedy
    /\ beam.result # <<>>

\* the results the two planners return when the set of nodes is iterated
\* from first_node on
SameFromEveryFirstNode ==
    \A first_node \in graph.nodes :
        /\ plan.status = "done"
             => plan.result = plan_with_astar(graph, colony, first_node, plan.tasks)
        /\ beam.status = "done"
             => beam.result = plan_with_beam_search(graph, colony, first_node,
                                                    beam.tasks, beam.beam_width)

\* C13: two executions of plan_with_astar, or of plan_with_beam_search with
\* one beam width, on the same graph, task list and ordered agent list
\* return the same ordered assignment list, also when an agent's location is
\* missing or unmappable.
C13_Deterministic == SameFromEveryFirstNode

\* the step cost as stated: travel_cost(a, t) + t.estimated_duration
\* + (10 - t.priority) * 0.1
StatedStepCost(assignment) ==
    calculate_travel_cost(graph, colony, assignment.agent_id, assignment.task, FALSE).cost
        + assignment.task.estimated_duration * Scale
        + ((10 - assignment.task.priority) * Scale) \div 10

RECURSIVE SumOfStatedStepCosts(_)
SumOfStatedStepCosts(assignments) ==
    IF assignments = <<>> THEN 0
    ELSE StatedStepCost(Head(assignments)) + SumOfStatedStepCosts(Tail(assignments))

\* C14: the g-score of every state a step of the two searches generates
\* (pushes on the open set, or puts into the frontier) is the sum, over the
\* assignments the state holds, of travel cost + duration
\* + (10 - priority) * 0.1; the tie-break counter adds nothing to it.
C14_GScoreIsSumOfStepCosts ==
    [][/\ \A e \in plan'.open \ plan.open :
              /\ e.g = SumOfStatedStepCosts(e.state.assignments)
              /\ e.state.current_time = e.g
       /\ \A i \in 1..Len(beam'.current_level) :
              beam'.current_level[i].g_score
                  = SumOfStatedStepCosts(beam'.current_level[i].assignments)]_vars

\* plan_with_astar has left a generated state of three assignments with a
\* tie-break counter above 10 in the open set, and the frontier of
\* plan_with_beam_search holds a state of two assignments
C14_Witness ==
    /\ \E e \in plan.open : Len(e.state.assignments) = 3 /\ e.counter > 10
    /\ beam.status = "run"
    /\ \E i \in 1..Len(beam.current_level) :
           Len(beam.current_level[i].assignments) = 2

\* C15: for every state the assignment search has generated, the value of
\* _calculate_heuristic is at most the least total step cost of a sequence
\* of assignments that completes the state.
C15_PlanHeuristicAdmissible ==
    AgentIds(colony) # {}
        => \A e \in plan.open :
               calculate_heuristic(graph, colony,
                       Unassigned(plan.tasks, e.state.assigned_tasks),
                       e.state.agent_positions)
                   <= MinPlanCost(graph, colony,
                          Unassigned(plan.tasks, e.state.assigned_tasks))

\* the key of the i-th agent in the position map: agent.get("id", i)
PositionKey(agents, i) == IF agents[i].id = NoId THEN i - 1 ELSE agents[i].id

\* the agents of the colony whose location is missing or maps to no node
Unmapped ==
    {i \in 1..Len(colony) :
        get_agent_location_node(graph, colony, PositionKey(colony, i)) = None}

\* C16: in the initial search state of plan_with_astar and of
\* plan_with_beam_search every agent whose location is missing or cannot be
\* mapped to a node stands at DEFAULT_FALLBACK_NODE.
C16_FallbackIsDefaultNode ==
    \A i \in Unmapped :
        /\ \A e \in plan.open :
               e.counter = 0
                   => e.state.agent_positions[PositionKey(colony, i)]
                          = DEFAULT_FALLBACK_NODE
        /\ (beam.status = "run" /\ beam.plies = 0)
               => beam.current_level[1].agent_positions[PositionKey(colony, i)]
                      = DEFAULT_FALLBACK_NODE

\* C17: for k >= 1 tasks with distinct ids, at least one agent, every agent
\* having an id, and beam_width >= 1, plan_with_beam_search returns after
\* exactly k plies one assignment per requested task, and not from the
\* greedy fallback.
C17_BeamReachesGoalInKPlies ==
    (beam.status = "done" /\ beam.tasks # <<>> /\ colony # <<>>
        /\ AllHaveIds(colony) /\ beam.beam_width >= 1)
        => /\ beam.plies = Len(beam.tasks)
           /\ Len(beam.result) = Len(beam.tasks)
           /\ OneAssignmentPerTask(beam.tasks, beam.result)
           /\ ~beam.used_greedy

\* plan_with_beam_search of width 1 has returned for four tasks and two
\* agents
C17_Witness ==
    /\ beam.status = "done" /\ beam.beam_width = 1
    /\ Len(beam.tasks) = 4
    /\ Len(colony) = 2 /\ AllHaveIds(colony)
    /\ beam.plies = 4

\* the node at which the agent of the i-th assignment stands in the plan
\* before that assignment: the node of the last task given to it earlier in
\* the plan, or its initial node
NodeBefore(assignments, i) ==
    LET earlier == {j \in 1..(i - 1) :
                       assignments[j].agent_id = assignments[i].agent_id}
    IN IF earlier = {}
       THEN get_agent_location_node(graph, colony, assignments[i].agent_id)
       ELSE get_task_location_node(graph,
                assignments[CHOOSE j \in earlier : \A o \in earlier : o <= j].task)

\* every path travelled starts where the agent stands in the plan
TravelsFromCurrentPosition(assignments) ==
    \A i \in 1..Len(assignments) :
        assignments[i].path # <<>>
            => assignments[i].path[1] = NodeBefore(assignments, i)

\* C18: in the plans of plan_with_astar, plan_with_beam_search and the
\* greedy fallback the travel of an assignment is measured from the agent's
\* current position in the plan: the node of the last task already given to
\* it, or its initial node if it has none.
C18_TravelFromCurrentPosition ==
    /\ plan.status = "done" => TravelsFromCurrentPosition(plan.result)
    /\ beam.status = "done" => TravelsFromCurrentPosition(beam.result)

\* BeamState.__hash__: the key of a beam state
BeamKey(st) == <<st.assigned_tasks, st.agent_positions>>

\* C19: no frontier of plan_with_beam_search holds two states with the same
\* assigned-task set and the same agent positions.
C19_FrontierKeysDistinct ==
    \A i, j \in 1..Len(beam.current_level) :
        i # j => BeamKey(beam.current_level[i]) # BeamKey(beam.current_level[j])

\* all successors of the frontier of s, from its i-th state on, as
\* (f_score, state) pairs in generation order
RECURSIVE FrontierSuccessors(_, _)
FrontierSuccessors(s, i) ==
    IF i > Len(s.current_level) THEN <<>>
    ELSE BeamExpand(graph, colony, s.tasks, s.current_level[i],
                    Unassigned(s.tasks, s.current_level[i].assigned_tasks),
                    1, 1, <<>>)
         \o FrontierSuccessors(s, i + 1)

\* successor i comes before successor j: a smaller g + h, or the same and
\* generated earlier
ComesBefore(successors, i, j) ==
    \/ successors[i].f < successors[j].f
    \/ successors[i].f = successors[j].f /\ i < j

\* the level holds min(beam_width, number of successors) states, and its
\* k-th state is the successor that exactly k - 1 successors come before
KeepsBest(successors, level, beam_width) ==
    /\ Len(level) <= beam_width
    /\ Len(level) = IF Len(successors) < beam_width THEN Len(successors)
                                                    ELSE beam_width
    /\ \A k \in 1..Len(level) :
           \E j \in 1..Len(successors) :
               /\ level[k] = successors[j].state
               /\ Cardinality({i \in 1..Len(successors) :
                                  ComesBefore(successors, i, j)}) = k - 1

\* C20: for beam_width >= 1 every ply of plan_with_beam_search leaves a
\* frontier of at most beam_width states, which are the successors of the
\* previous frontier with the smallest g + h, ties kept in generation order.
C20_BeamKeepsBest ==
    [][(beam.status = "run" /\ beam'.status = "run" /\ beam.beam_width >= 1)
          => KeepsBest(FrontierSuccessors(beam, 1), beam'.current_level,
                       beam.beam_width)]_vars

\* a ply of width 2 has cut the successors of two tasks and two agents down
\* to a frontier of two states
C20_Witness ==
    /\ beam.status = "run" /\ beam.plies >= 2
    /\ beam.beam_width = 2 /\ Len(beam.current_level) = 2
    /\ Len(colony) = 2 /\ AllHaveIds(colony)
    /\ Len(beam.tasks) >= 3

\* position of the task with that id in the task list
TaskIndex(tasks, task_id) == CHOOSE t \in 1..Len(tasks) : tasks[t].task_id = task_id

\* travel_cost + duration of giving the task to the i-th agent of the colony
GreedyCost(i, task) ==
    calculate_travel_cost(graph, colony, colony[i].id, task, FALSE).cost
        + task.estimated_duration * Scale

\* the assignments run in non-increasing priority, equal priorities in the
\* order of the task list
InPriorityOrder(tasks, assignments) ==
    \A i, j \in 1..Len(assignments) :
        i < j => \/ assignments[i].task.priority > assignments[j].task.priority
                 \/ /\ assignments[i].task.priority = assignments[j].task.priority
                    /\ TaskIndex(tasks, assignments[i].task.task_id)
                          < TaskIndex(tasks, assignments[j].task.task_id)

\* every task goes to the first agent, in colony order, of least
\* travel_cost + duration
ToFirstCheapestAgent(assignments) ==
    \A i \in 1..Len(assignments) :
        \E a \in 1..Len(colony) :
            /\ colony[a].id = assignments[i].agent_id
            /\ \A b \in 1..Len(colony) :
                   GreedyCost(a, assignments[i].task)
                       <= GreedyCost(b, assignments[i].task)
            /\ \A b \in 1..(a - 1) :
                   GreedyCost(a, assignments[i].task)
                       < GreedyCost(b, assignments[i].task)

\* C21: with beam_width = 0, k tasks and at least one agent, every agent
\* having an id, plan_with_beam_search returns the greedy plan: one
\* assignment per task, in non-increasing priority order (equal priorities
\* in input order), each task given to the first agent in colony-state order
\* that minimises travel_cost + duration.
C21_EmptyFrontierGivesGreedyPlan ==
    (beam.status = "done" /\ beam.beam_width = 0 /\ beam.tasks # <<>>
        /\ colony # <<>> /\ AllHaveIds(colony))
        => /\ beam.used_greedy
           /\ Len(beam.result) = Len(beam.tasks)
           /\ OneAssignmentPerTask(beam.tasks, beam.result)
           /\ InPriorityOrder(beam.tasks, beam.result)
           /\ ToFirstCheapestAgent(beam.result)

\* beam search of width 0 has returned the greedy plan of four tasks for two
\* agents, two of which cost the same for some task
C21_Witness ==
    /\ beam.status = "done" /\ beam.beam_width = 0 /\ beam.used_greedy
    /\ Len(beam.result) = 4
    /\ Len(colony) = 2 /\ AllHaveIds(colony)
    /\ \E i \in 1..4 : GreedyCost(1, beam.result[i].task)
                           = GreedyCost(2, beam.result[i].task)


-----------------------------------------------------------------------------
(* C22: symmetry of the two entries written by a bidirectional add_edge *)

\* the call names the pair {a, b} as an edge
OnPair(call, a, b) ==
    /\ call.op = "add_edge"
    /\ {call.from, call.to} = {a, b}

\* both directed entries exist and carry the cost c
BothEntries(G, a, b, c) ==
    /\ HasEdge(G, a, b) /\ EdgeCost(G, a, b) = c
    /\ HasEdge(G, b, a) /\ EdgeCost(G, b, a) = c

\* index of the last call at or after i that names the pair of call i
LastOnPair(i) ==
    CHOOSE j \in i..Len(calls) :
        /\ OnPair(calls[j], calls[i].from, calls[i].to)
        /\ \A k \in (j + 1)..Len(calls) :
               ~OnPair(calls[k], calls[i].from, calls[i].to)

\* C22 as stated: once add_edge(a, b, c) was called as bidirectional, a and b
\* are nodes and edges[a][b] = edges[b][a] in every later graph state,
\* whatever add_node and add_edge calls follow.
C22_AlwaysSymmetric ==
    \A i \in 1..Len(calls) :
        (calls[i].op = "add_edge" /\ calls[i].bidirectional) =>
            /\ {calls[i].from, calls[i].to} \subseteq graph.nodes
            /\ HasEdge(graph, calls[i].from, calls[i].to)
            /\ HasEdge(graph, calls[i].to, calls[i].from)
            /\ EdgeCost(graph, calls[i].from, calls[i].to)
                   = EdgeCost(graph, calls[i].to, calls[i].from)

\* C22 amended: once add_edge(a, b, c) was called as bidirectional, a and b
\* are nodes and both entries exist in every later graph state; the two
\* entries are equal, to the cost of the last add_edge call naming the pair,
\* as long as no later add_edge call names the pair as one-directional.
C22_SymmetricUntilOneWay ==
    \A i \in 1..Len(calls) :
        (calls[i].op = "add_edge" /\ calls[i].bidirectional) =>
            /\ {calls[i].from, calls[i].to} \subseteq graph.nodes
            /\ HasEdge(graph, calls[i].from, calls[i].to)
            /\ HasEdge(graph, calls[i].to, calls[i].from)
            /\ (\A j \in (i + 1)..Len(calls) :
                    OnPair(calls[j], calls[i].from, calls[i].to)
                        => calls[j].bidirectional)
                  => BothEntries(graph, calls[i].from, calls[i].to,
                                 calls[LastOnPair(i)].cost)

\* a bidirectional add_edge followed by an add_node and by a bidirectional
\* add_edge on the same pair with another cost
C22_Witness ==
    /\ Len(calls) = 3
    /\ calls[1].op = "add_edge" /\ calls[1].bidirectional
    /\ calls[2].op = "add_node" /\ calls[2].from = calls[1].from
    /\ OnPair(calls[3], calls[1].from, calls[1].to)
    /\ calls[3].bidirectional /\ calls[3].cost # calls[1].cost
    /\ C22_SymmetricUntilOneWay


-----------------------------------------------------------------------------
(* C23: the deepening loop of idastar_path *)

\* f-score of the search node standing at the end of the path
PathF(G, goal, path) ==
    PathEdgeSum(G, path) + heuristic(G, path[Len(path)], goal)

\* every path a depth-first search standing on the path may probe under the
\* bound: the path, and each extension by edges to nodes not on it, as long
\* as the extended path is within the bound and not at the goal
RECURSIVE Probes(_, _, _, _)
Probes(G, goal, bound, path) ==
    IF PathF(G, goal, path) > bound \/ path[Len(path)] = goal THEN {path}
    ELSE {path} \cup UNION {Probes(G, goal, bound, Append(path, n)) :
                               n \in Successors(G, path[Len(path)]) \ SeqRange(path)}

ReachesGoal(G, goal, bound, P) ==
    \E p \in P : p[Len(p)] = goal /\ PathF(G, goal, p) <= bound

ExceedingF(G, goal, bound, P) ==
    {PathF(G, goal, p) : p \in {q \in P : PathF(G, goal, q) > bound}}

\* one iteration of the deepening loop does what the bound rule says
IdaIterationByRule(P) ==
    /\ \A p \in searchCalls(graph, query.goal, <<query.start>>, 0, ida.bound) :
           p \in P /\ NoRepeat(p)
    /\ ida'.status = "run" <=>
           /\ ~ReachesGoal(graph, query.goal, ida.bound, P)
           /\ ExceedingF(graph, query.goal, ida.bound, P) # {}
    /\ ida'.status = "run" =>
           /\ ida'.bound = SetMin(ExceedingF(graph, query.goal, ida.bound, P))
           /\ ida'.bound > ida.bound
    /\ (ida'.status = "done" /\ ~ida'.result.found) <=>
           /\ ~ReachesGoal(graph, query.goal, ida.bound, P)
           /\ ExceedingF(graph, query.goal, ida.bound, P) = {}

\* C23: idastar_path terminates; each iteration that neither finds the goal
\* nor gives up raises the bound to the least f-score that exceeded it, a
\* strictly larger bound; no path the search stands on holds a node twice;
\* and the search returns not-found exactly when an iteration ends without
\* reaching the goal and with no f-score above the bound.
C23_IdaStarTerminates ==
    /\ [][ida.status = "run" =>
             IdaIterationByRule(Probes(graph, query.goal, ida.bound,
                                       <<query.start>>))]_vars
    /\ <>(ida.status = "done")

\* a search that raised its bound twice before it found the goal
C23_Witness ==
    /\ ida.status = "done"
    /\ ida.iterations >= 3
    /\ ida.result.found


-----------------------------------------------------------------------------
(* C24: the closed set and the pushes of astar_path *)

\* one iteration of the while loop pops the entry cur and pushes the entries
\* pushed: a node popped when already closed is not expanded again, a node
\* popped for the first time is closed, and every push is of a node that is
\* not closed and has no recorded g-score or a strictly lower one
AStarIterationByRule(cur, pushed) ==
    /\ cur.node \in astar.closed =>
           /\ pushed = {}
           /\ astar'.closed = astar.closed
           /\ astar'.g_scores = astar.g_scores
    /\ cur.node \notin astar.closed =>
           astar'.closed = astar.closed \cup {cur.node}
    /\ \A e \in pushed :
           /\ e.node \notin astar'.closed
           /\ \/ ~HasKey(astar.g_scores, e.node)
              \/ e.g < Lookup(astar.g_scores, e.node)

\* C24: in astar_path a node is expanded (added to the closed set) at most
\* once, a node in the closed set is never pushed again, a neighbor is pushed
\* only when it has no recorded g-score or the tentative g-score is strictly
\* lower than the recorded one, and the loop terminates.
C24_AStarExpandsOnce ==
    /\ [][(astar.status = "run" /\ astar.open # {}) =>
             AStarIterationByRule(HeapMin(astar.open),
                                  astar'.open \ astar.open)]_vars
    /\ <>(astar.status = "done")

\* a search that pushed a node a second time on a lower g-score, closed it,
\* and now pops its first entry
C24_Witness ==
    /\ astar.status = "run"
    /\ astar.open # {}
    /\ HeapMin(astar.open).node \in astar.closed
    /\ Lookup(astar.g_scores, HeapMin(astar.open).node) < HeapMin(astar.open).g


-----------------------------------------------------------------------------
(* C25: the three cases of calculate_travel_cost *)

\* agent ids a caller may pass: those of the pool and one that no agent has
CallerIds == {AgentPool[i].id : i \in 1..Len(AgentPool)} \cup {Len(AgentPool)}

AllTasks == SeqRange(TaskPool) \cup SeqRange(UrgentPool)

\* the agent with the id has a location of two coordinates
HasCoordinates(agents, agent_id) ==
    /\ AgentIndexById(agents, agent_id) # 0
    /\ agents[AgentIndexById(agents, agent_id)].location.kind = "xy"

\* the travel the three cases give for the agent's node a and the task's
\* node t
TravelByCase(G, agents, agent_id, task, use_idastar, a, t) ==
    IF a # None /\ t # None
    THEN IF a = t THEN [cost |-> 0, path |-> <<a>>]
         ELSE IF use_idastar
         THEN [cost |-> idastar_path(G, a, t).cost,
               path |-> idastar_path(G, a, t).path]
         ELSE [cost |-> astar_path(G, a, t).cost, path |-> astar_path(G, a, t).path]
    ELSE IF HasCoordinates(agents, agent_id)
    THEN [cost |-> Hypot(task.location[1]
                            - agents[AgentIndexById(agents, agent_id)].location.x,
                         task.location[2]
                            - agents[AgentIndexById(agents, agent_id)].location.y),
          path |-> <<>>]
    ELSE [cost |-> 0, path |-> <<>>]

\* C25: calculate_travel_cost returns the pathfinder's cost and path
\* (idastar_path's with use_idastar, astar_path's without) when the
\* agent and the task both map to nodes (0 and the one-node path when they
\* map to the same node); otherwise the straight-line distance from the
\* agent's coordinates to the task's with an empty path, or 0 with an empty
\* path when the agent has no coordinates.
C25_TravelCostCases ==
    \A agent_id \in CallerIds, task \in AllTasks, use_idastar \in BOOLEAN :
        calculate_travel_cost(graph, colony, agent_id, task, use_idastar)
            = TravelByCase(graph, colony, agent_id, task, use_idastar,
                           get_agent_location_node(graph, colony, agent_id),
                           get_task_location_node(graph, task))

\* a plan made on the graph without positions, for an agent with coordinates
\* and for one without: the planner has charged the straight-line distance
\* and nothing
C25_Witness ==
    /\ plan.status = "done"
    /\ graph = UnplacedGraph
    /\ Len(plan.result) = 2
    /\ \E i, j \in 1..Len(colony) :
           /\ colony[i].location.kind = "xy"
           /\ colony[j].location.kind # "xy"
           /\ {plan.result[1].agent_id, plan.result[2].agent_id}
                  = {colony[i].id, colony[j].id}


-----------------------------------------------------------------------------
(* C26: the rounding of an assignment's times *)

TimeTaken(assignment) == assignment.completion_time - assignment.start_time

\* two steps of the list with the same total cost take the same time
SameCostSameTimeTaken(assignments) ==
    \A i, j \in 1..Len(assignments) :
        StatedStepCost(assignments[i]) = StatedStepCost(assignments[j])
            => TimeTaken(assignments[i]) = TimeTaken(assignments[j])

\* C26: in a list returned by a search, completion_time - start_time is the
\* step's total cost under one rounding rule: two steps with the same total
\* cost give the same completion_time - start_time, whatever the elapsed time
\* at which each starts.
C26_ConsistentRounding ==
    /\ (plan.status = "done" /\ ~plan.used_greedy)
          => SameCostSameTimeTaken(plan.result)
    /\ (beam.status = "done" /\ ~beam.used_greedy)
          => SameCostSameTimeTaken(beam.result)


-----------------------------------------------------------------------------
(* C27: the assigned set of the states of plan_with_astar *)

\* the state's assigned ids are requested ids, and its assignments are one
\* per assigned id
WellAssigned(st, tasks) ==
    /\ st.assigned_tasks \subseteq GoalTasks(tasks)
    /\ Len(st.assignments) = Cardinality(st.assigned_tasks)
    /\ AssignedIds(st.assignments) = st.assigned_tasks

\* C27: every state plan_with_astar generates has its assigned set within
\* the requested task ids and holds exactly one assignment per assigned id,
\* and the assignments the search returns are those of a state whose
\* assigned set is the requested set.
C27_AssignedWithinRequested ==
    /\ \A e \in plan.open : WellAssigned(e.state, plan.tasks)
    /\ (plan.status = "done" /\ plan.expanded > 0 /\ ~plan.used_greedy)
          => /\ AssignedIds(plan.result) = GoalTasks(plan.tasks)
             /\ Len(plan.result) = Cardinality(GoalTasks(plan.tasks))

\* the search has returned the assignments of four tasks and left states of
\* one, two and three assignments in the open set
C27_Witness ==
    /\ plan.status = "done"
    /\ ~plan.used_greedy
    /\ Len(plan.result) = 4
    /\ \A n \in 1..3 : \E e \in plan.open : Len(e.state.assignments) = n


-----------------------------------------------------------------------------
(* C28: the one timeline of a returned list *)

\* the first assignment starts at 0 and each later one starts when the one
\* before it in the list completes
Chained(assignments) ==
    \A i \in 1..Len(assignments) :
        assignments[i].start_time
            = IF i = 1 THEN 0 ELSE assignments[i - 1].completion_time

\* some unit of time, ending at the given time, lies within both assignments
Overlap(a, b) ==
    \E time \in a.start_time..a.completion_time :
        /\ a.start_time < time /\ time <= a.completion_time
        /\ b.start_time < time /\ time <= b.completion_time

OneTimeline(assignments) ==
    /\ Chained(assignments)
    /\ \A i, j \in 1..Len(assignments) :
           i # j => ~Overlap(assignments[i], assignments[j])

\* C28: in every list plan_with_astar, plan_with_beam_search or the greedy
\* fallback returns, the first assignment starts at 0 and each later one
\* starts at the completion_time of the one before it in the list, so that
\* no two assignments overlap in time, whatever their agents.
C28_OneTimeline ==
    /\ plan.status = "done" => OneTimeline(plan.result)
    /\ beam.status = "done" => OneTimeline(beam.result)


-----------------------------------------------------------------------------
(* C29: g-scores and state keys of plan_with_astar *)

\* the entries a step pushes on the open set
Pushed == plan'.open \ plan.open

\* C29: in plan_with_astar the g-score of every entry pushed on the open set
\* is the elapsed time of its state, and so is the g-score recorded for its
\* key; a state is pushed only when its key has no recorded g-score, never on
\* an improved one, and no key is pushed twice.
C29_EachKeyPushedOnce ==
    [][/\ \A e \in Pushed :
              /\ e.g = e.state.current_time
              /\ ~GHas(plan.g_scores, StateKey(e.state))
              /\ \A o \in Pushed : StateKey(o.state) = StateKey(e.state) => o = e
       /\ \A e \in plan'.open :
              /\ GHas(plan'.g_scores, StateKey(e.state))
              /\ GGet(plan'.g_scores, StateKey(e.state)) = e.state.current_time
       /\ Cardinality(plan'.g_scores)
              = Cardinality(plan.g_scores) + Cardinality(Pushed)]_vars

\* the search has generated states that were already recorded under their
\* key, and has not pushed them
C29_Witness ==
    /\ plan.status = "done"
    /\ ~plan.used_greedy
    /\ plan.state_counter > Cardinality(plan.g_scores) + 2


-----------------------------------------------------------------------------
(* C30: an agent that cannot reach the task *)

\* the agent and the task map to two nodes that no path connects
NoWay(agent_id, task) ==
    /\ get_agent_location_node(graph, colony, agent_id) # None
    /\ get_task_location_node(graph, task) # None
    /\ get_agent_location_node(graph, colony, agent_id)
          # get_task_location_node(graph, task)
    /\ ~IsReachable(graph, get_agent_location_node(graph, colony, agent_id),
                    get_task_location_node(graph, task))

\* the travel charged for the assignment when an agent without a way to the
\* task is charged like one standing on the task's node
TravelCharged(assignment) ==
    IF NoWay(assignment.agent_id, assignment.task) THEN 0
    ELSE calculate_travel_cost(graph, colony, assignment.agent_id,
                               assignment.task, FALSE).cost

RECURSIVE SearchCharge(_), GreedyCharge(_)
SearchCharge(assignments) ==
    IF assignments = <<>> THEN 0
    ELSE TravelCharged(Head(assignments))
         + Head(assignments).task.estimated_duration * Scale
         + ((10 - Head(assignments).task.priority) * Scale) \div 10
         + SearchCharge(Tail(assignments))

GreedyCharge(assignments) ==
    IF assignments = <<>> THEN 0
    ELSE TravelCharged(Head(assignments))
         + Head(assignments).task.estimated_duration * Scale
         + GreedyCharge(Tail(assignments))

\* the list is complete for the tasks and its last completion_time is the
\* charge
CompleteAt(tasks, assignments, charge) ==
    /\ OneAssignmentPerTask(tasks, assignments)
    /\ Len(assignments) = Len(tasks)
    /\ assignments # <<>> =>
           assignments[Len(assignments)].completion_time = ToInt(charge)

\* C30: when the agent and the task map to nodes that no path connects,
\* calculate_travel_cost returns 0 with an empty path with either
\* pathfinder; plan_with_astar,
\* plan_with_beam_search and the greedy fallback charge such an agent the
\* travel of an agent standing on the task's node, and return a complete
\* plan.
C30_NoWayCostsNothing ==
    /\ \A agent_id \in CallerIds, task \in AllTasks, use_idastar \in BOOLEAN :
           NoWay(agent_id, task) =>
               calculate_travel_cost(graph, colony, agent_id, task, use_idastar)
                   = [cost |-> 0, path |-> <<>>]
    /\ \A e \in plan.open :
           e.state.current_time = SearchCharge(e.state.assignments)
    /\ \A i \in 1..Len(beam.current_level) :
           beam.current_level[i].g_score
               = SearchCharge(beam.current_level[i].assignments)
    /\ (plan.status = "done" /\ colony # <<>> /\ AllHaveIds(colony))
          => CompleteAt(plan.tasks, plan.result, SearchCharge(plan.result))
    /\ (beam.status = "done" /\ colony # <<>> /\ AllHaveIds(colony))
          => CompleteAt(beam.tasks, beam.result,
                        IF beam.used_greedy THEN GreedyCharge(beam.result)
                                            ELSE SearchCharge(beam.result))


\* the list gives a task to an agent that has no way to it
GivenWithoutWay(assignments) ==
    \E i \in 1..Len(assignments) :
        NoWay(assignments[i].agent_id, assignments[i].task)

C30_Witness ==
    /\ plan.status = "done"
    /\ beam.status = "done"
    /\ Len(plan.tasks) >= 2
    /\ Len(plan.result) = Len(plan.tasks)
    /\ GivenWithoutWay(plan.result)
    /\ GivenWithoutWay(beam.result)

====
